---- MODULE Spec2Model ----
(***************************************************************************)
(* ArticleService (apps/backend/src/article/article.module.ts) over its    *)
(* relational store.  A call is a request that suspends at every await of  *)
(* a storage round trip; one action is one such round trip together with   *)
(* the synchronous code that follows it.  The durable store is the         *)
(* variable db; what a request has loaded into its own unit of work lives  *)
(* in its slot of reqs.  A server with one slot runs its calls one after   *)
(* the other; with more slots the calls interleave at their awaits.        *)
(***************************************************************************)
EXTENDS Integers, Sequences, FiniteSets, TLC

VARIABLES db, reqs, hist, calls

vars == <<db, reqs, hist, calls>>

----------------------------------------------------------------------------
(* Bounds of the model. *)

NumUsers == 2
MaxCalls == 4
\* a createArticle call starts while fewer articles than this are stored
MaxArticles == 1
\* the longest tagList string tried exhaustively
MaxStrLen == 2
\* comments are added while fewer than this were ever created
MaxComments == 2
\* the largest limit and offset a list query carries
MaxLimit == 2

Users == 1..NumUsers
\* a viewer id that resolves to no user
NoUser == NumUsers + 1
UserIds == Users \cup {NoUser}

Null == [null |-> TRUE]

\* an article's slug: its title and the suffix the constructor appends
SlugOf(title, n) == <<title, n>>
NoSlug == SlugOf("t", 0)

Idle == [op |-> "idle", pc |-> "idle"]

----------------------------------------------------------------------------
(* The store. *)

ArticleIds(d) == DOMAIN d.articles

BySlug(d, slug) == {a \in ArticleIds(d) : d.articles[a].slug = slug}

\* the users whose favorites contain article a
Favoriters(d, a) == {u \in Users : a \in d.favorites[u]}

\* the next value of a table's auto-increment key
NextId(table) ==
  IF DOMAIN table = {} THEN 1
  ELSE (CHOOSE i \in DOMAIN table : \A j \in DOMAIN table : j <= i) + 1

\* An inserted article row gets the next id; its slug is its title and a suffix
\* that makes it unique.
NewRow(table, row) ==
  LET id == NextId(table)
  IN [i \in DOMAIN table \cup {id} |->
        IF i = id THEN [row EXCEPT !.slug = SlugOf(row.title, id)]
        ELSE table[i]]

\* the counter recomputed by the store from the pivot rows
SetCount_Recount(d, a, v) ==
  [d EXCEPT !.articles[a].favoritesCount = Cardinality(Favoriters(d, a))]

\* an UPDATE that is not restricted to the article's row
SetCount_AllRows(d, a, v) ==
  [d EXCEPT !.articles = [i \in DOMAIN @ |-> [@[i] EXCEPT !.favoritesCount = v]]]

\* The UPDATE a flush issues for a changed favoritesCount, lines 167-170 and
\* 180-183: the column is set to the value the call computed.
SetCount(d, a, v) == [d EXCEPT !.articles[a].favoritesCount = v]

\* One write of a unit of work, applied to the store.
ApplyWrite(d, w) ==
  CASE w.t = "pivotInsert" ->
         [d EXCEPT !.favorites[w.user] = @ \cup {w.article}]
    [] w.t = "pivotDelete" ->
         [d EXCEPT !.favorites[w.user] = @ \ {w.article}]
    [] w.t = "setCount" ->
         SetCount(d, w.article, w.value)
    [] w.t = "insertArticle" ->
         [d EXCEPT !.articles = NewRow(@, w.row)]
    [] w.t = "insertTag" ->
         [d EXCEPT !.tags = Append(@, w.tag)]
    [] w.t = "insertComment" ->
         [d EXCEPT !.comments = [i \in DOMAIN @ \cup {d.commentSeq + 1} |->
                                   IF i \in DOMAIN @ THEN @[i] ELSE w.row],
                   !.commentSeq = @ + 1]
    [] w.t = "deleteComment" ->
         [d EXCEPT !.comments = [i \in DOMAIN @ \ {w.id} |-> @[i]]]

RECURSIVE ApplyAll(_, _)
ApplyAll(d, ws) ==
  IF ws = <<>> THEN d ELSE ApplyAll(ApplyWrite(d, Head(ws)), Tail(ws))

\* A write the store rejects: a second pivot row for the same pair.
Rejected(d, w) == w.t = "pivotInsert" /\ w.article \in d.favorites[w.user]

----------------------------------------------------------------------------
(* Requests. *)

Slots == DOMAIN reqs
Sequential == Cardinality(Slots) = 1

\* The completed calls, newest last, kept while calls run one at a time: the
\* last two favorite / unFavorite calls; of the others the last one, until
\* the next call starts.
Record(h, e) ==
  IF ~Sequential THEN h
  ELSE IF e.call.op \in {"favorite", "unFavorite"} /\ Len(h) = 1
         THEN Append(h, e)
         ELSE IF e.call.op \in {"favorite", "unFavorite"} /\ Len(h) = 2
                THEN Append(Tail(h), e)
                ELSE << e >>

\* The call of request r returns (or throws) res, the store being d and n
\* writes of the call having been rolled back.
Return(s, r, res, d, n) ==
  /\ reqs' = [reqs EXCEPT ![s] = Idle]
  /\ hist' = Record(hist, [call |-> r.call, res |-> res, pre |-> r.pre,
                           post |-> d, undone |-> n])

\* the slot a new call takes: the first idle one
FreeSlot(s) == reqs[s] = Idle /\ \A t \in Slots : t < s => reqs[t] # Idle

Pre == IF Sequential THEN db ELSE Null

\* A call that only reads answers out in one step.
Answer(s, call, res, out) ==
  /\ UNCHANGED <<db, reqs, calls>>
  /\ hist' = << [call |-> call, res |-> res, pre |-> Pre, post |-> db,
                 undone |-> 0, out |-> out] >>

\* the counter bump moved out of the membership test
favoriteChanges_CountOutsideTest(u, a, n, favs) ==
  IF a \notin favs
    THEN << [t |-> "pivotInsert", user |-> u, article |-> a],
            [t |-> "setCount", article |-> a, value |-> n + 1] >>
    ELSE << [t |-> "setCount", article |-> a, value |-> n + 1] >>

\* favorite, lines 165-168: what the unit of work holds after the membership
\* test, for an article loaded with count n and a user loaded with favorites favs
favoriteChanges(u, a, n, favs) ==
  IF a \notin favs
    THEN << [t |-> "pivotInsert", user |-> u, article |-> a],
            [t |-> "setCount", article |-> a, value |-> n + 1] >>
    ELSE << >>

\* the decrement left out
unFavoriteChanges_NoDecrement(u, a, n, favs) ==
  IF a \in favs
    THEN << [t |-> "pivotDelete", user |-> u, article |-> a] >>
    ELSE << >>

\* unFavorite, lines 178-181
unFavoriteChanges(u, a, n, favs) ==
  IF a \in favs
    THEN << [t |-> "pivotDelete", user |-> u, article |-> a],
            [t |-> "setCount", article |-> a, value |-> n - 1] >>
    ELSE << >>

\* a flush after each change instead of one after both
FlushUnits_PerWrite(ws) == [i \in 1..Len(ws) |-> << ws[i] >>]

\* em.flush(), lines 170 and 183: the pending writes of the unit of work go to
\* the store in one transaction
FlushUnits(ws) == IF ws = << >> THEN << >> ELSE << ws >>

\* favorite / unFavorite, lines 162 and 175: the call starts and looks the
\* article up by slug
FindArticle(s, op, id, slug) ==
  /\ FreeSlot(s)
  /\ calls < MaxCalls
  /\ calls' = calls + 1
  /\ db' = db
  /\ LET call == [op |-> op, userId |-> id, slug |-> slug]
     IN IF BySlug(db, slug) = {}
          THEN Return(s, [call |-> call, pre |-> Pre], "NotFound", db, 0)
          ELSE LET a == CHOOSE x \in BySlug(db, slug) : TRUE
               IN /\ reqs' = [reqs EXCEPT ![s] =
                       [op |-> op, pc |-> "findUser", call |-> call,
                        pre |-> Pre, article |-> a,
                        favoritesCount |-> db.articles[a].favoritesCount]]
                  /\ hist' = hist

favorite(s, id, slug) == FindArticle(s, "favorite", id, slug)

unFavorite(s, id, slug) == FindArticle(s, "unFavorite", id, slug)

\* lines 163-168 and 176-181: the user is loaded with its favorites, then the
\* membership test and the two in-memory changes run
FindUser(s) ==
  LET r == reqs[s] IN
  /\ r.pc = "findUser"
  /\ r.op \in {"favorite", "unFavorite"}
  /\ UNCHANGED <<db, calls>>
  /\ IF r.call.userId \notin Users
       THEN Return(s, r, "NotFound", db, 0)
       ELSE LET u == r.call.userId
                favs == db.favorites[u]
                ws == IF r.op = "favorite"
                        THEN favoriteChanges(u, r.article, r.favoritesCount, favs)
                        ELSE unFavoriteChanges(u, r.article, r.favoritesCount, favs)
            IN /\ reqs' = [reqs EXCEPT ![s] =
                    [op |-> r.op, pc |-> "flush", call |-> r.call,
                     pre |-> r.pre, article |-> r.article,
                     changes |-> ws, units |-> FlushUnits(ws)]]
               /\ hist' = hist

\* lines 170-171 and 183-184: em.flush() commits, then the call returns
Flush(s) ==
  LET r == reqs[s] IN
  /\ r.pc = "flush"
  /\ calls' = calls
  /\ IF r.units = << >>
       THEN /\ db' = db
            /\ Return(s, r, "ok", db, 0)
       ELSE IF \E i \in 1..Len(Head(r.units)) : Rejected(db, Head(r.units)[i])
         THEN /\ db' = db
              /\ Return(s, r, "error", db, Len(Head(r.units)))
         ELSE LET d == ApplyAll(db, Head(r.units))
              IN /\ db' = d
                 /\ IF Len(r.units) = 1
                      THEN Return(s, r, "ok", d, 0)
                      ELSE /\ reqs' = [reqs EXCEPT ![s].units = Tail(@)]
                           /\ hist' = hist

----------------------------------------------------------------------------
(* createArticle.  A string is a sequence of characters. *)

Range(q) == {q[i] : i \in DOMAIN q}

\* a field the request body does not carry
Undefined == "undefined"

\* !v of lines 194: undefined and the empty string are falsy
Falsy(v) == v = Undefined \/ v = ""

\* String.prototype.split(',')
RECURSIVE split(_)
split(str) ==
  IF \A i \in DOMAIN str : str[i] # ","
    THEN << str >>
    ELSE LET i == CHOOSE k \in DOMAIN str :
                    str[k] = "," /\ \A j \in 1..(k - 1) : str[j] # ","
         IN << SubSeq(str, 1, i - 1) >> \o split(SubSeq(str, i + 1, Len(str)))

\* String.prototype.trim()
RECURSIVE trim(_)
trim(str) ==
  IF str = << >> THEN str
  ELSE IF Head(str) = " " THEN trim(Tail(str))
  ELSE IF str[Len(str)] = " " THEN trim(SubSeq(str, 1, Len(str) - 1))
  ELSE str

\* new Set(tags), in its iteration order: first occurrences
RECURSIVE SetOf(_)
SetOf(q) ==
  IF q = << >> THEN << >>
  ELSE LET init == SetOf(SubSeq(q, 1, Len(q) - 1))
       IN IF q[Len(q)] \in Range(init) THEN init ELSE Append(init, q[Len(q)])

\* the duplicates kept: an array where the code builds a Set
processTags_NoSet(tagList) ==
  IF tagList.kind = "string"
    THEN [i \in DOMAIN split(tagList.str) |-> trim(split(tagList.str)[i])]
    ELSE IF tagList.kind = "array"
      THEN [i \in DOMAIN tagList.items |-> trim(tagList.items[i])]
      ELSE << >>

\* processTags, lines 223-230
processTags(tagList) ==
  LET tags == IF tagList.kind = "string"
                THEN [i \in DOMAIN split(tagList.str) |-> trim(split(tagList.str)[i])]
                ELSE IF tagList.kind = "array"
                  THEN [i \in DOMAIN tagList.items |-> trim(tagList.items[i])]
                  ELSE << >>
  IN SetOf(tags)

\* only the title tested
Invalid_TitleOnly(dto) == Falsy(dto.title)

\* line 194
Invalid(dto) == Falsy(dto.title) \/ Falsy(dto.description) \/ Falsy(dto.body)

\* the article flushed before the transaction begins
TxScope_TagsOnly == {"insertTag"}

\* lines 205-218: the writes made inside em.transactional
TxScope == {"insertArticle", "insertTag"}

\* lines 192-203: validation, the author's lookup, the new article and its tags
create(s, userId, dto) ==
  /\ FreeSlot(s)
  /\ Cardinality(ArticleIds(db)) < MaxArticles
  /\ UNCHANGED <<db, calls>>
  /\ LET call == [op |-> "create", userId |-> userId, dto |-> dto]
     IN IF Invalid(dto)
          THEN Return(s, [call |-> call, pre |-> Pre], "BadRequest", db, 0)
          ELSE LET tagsToAdd == processTags(dto.tagList)
                   article == [slug |-> Null, title |-> dto.title,
                               description |-> dto.description,
                               body |-> dto.body,
                               author |-> IF userId \in Users THEN userId ELSE 0,
                               tagList |-> tagsToAdd, favoritesCount |-> 0]
               IN /\ reqs' = [reqs EXCEPT ![s] =
                       [op |-> "create", pc |-> "persistArticle", call |-> call,
                        pre |-> Pre, article |-> article,
                        tagsToAdd |-> tagsToAdd, missing |-> << >>, tx |-> << >>]]
                  /\ hist' = << >>

\* line 206: the article is inserted; a row without an author is refused
persistArticle(s) ==
  LET r == reqs[s] IN
  /\ r.pc = "persistArticle"
  /\ calls' = calls
  /\ IF r.article.author = 0
       THEN /\ db' = db
            /\ Return(s, r, "error", db, 1)
       ELSE /\ db' = IF "insertArticle" \in TxScope THEN db
                     ELSE ApplyWrite(db, [t |-> "insertArticle", row |-> r.article])
            /\ reqs' = [reqs EXCEPT ![s].pc = "findTags",
                          ![s].tx = IF "insertArticle" \in TxScope
                                      THEN << [t |-> "insertArticle", row |-> r.article] >>
                                      ELSE << >>]
            /\ hist' = hist

\* lines 208-209: the stored tags among tagsToAdd are looked up
findTags(s) ==
  LET r == reqs[s] IN
  /\ r.pc = "findTags"
  /\ UNCHANGED <<db, hist, calls>>
  /\ LET existingTagNames == Range(db.tags) \cap Range(r.tagsToAdd)
     IN reqs' = [reqs EXCEPT ![s].pc = "insertTags",
                   ![s].missing = SelectSeq(r.tagsToAdd,
                                     LAMBDA t : t \notin existingTagNames)]

\* lines 211-216: one missing tag is inserted
insertTag(s) ==
  LET r == reqs[s] IN
  /\ r.pc = "insertTags"
  /\ r.missing # << >>
  /\ UNCHANGED <<hist, calls>>
  /\ LET w == [t |-> "insertTag", tag |-> Head(r.missing)]
     IN /\ db' = IF w.t \in TxScope THEN db ELSE ApplyWrite(db, w)
        /\ reqs' = [reqs EXCEPT ![s].missing = Tail(@),
                      ![s].tx = IF w.t \in TxScope THEN Append(@, w) ELSE @]

\* lines 218-220: the transaction commits and the call returns
commit(s) ==
  LET r == reqs[s] IN
  /\ r.pc = "insertTags"
  /\ r.missing = << >>
  /\ calls' = calls
  /\ db' = ApplyAll(db, r.tx)
  /\ Return(s, r, "ok", ApplyAll(db, r.tx), 0)

\* lines 205-218: the transaction aborts (a storage error at any of its
\* statements) and rolls back; the call throws
abort(s) ==
  LET r == reqs[s] IN
  /\ r.op = "create"
  /\ r.pc \in {"findTags", "insertTags"}
  /\ UNCHANGED <<db, calls>>
  /\ Return(s, r, "error", db, Len(r.tx))

----------------------------------------------------------------------------
(* Comments. *)

\* article.comments: the comments the article owns
CommentsOf(d, a) == {c \in DOMAIN d.comments : d.comments[c].article = a}

\* the membership test left out
deleteCommentChanges_NoTest(comments, id) == << [t |-> "deleteComment", id |-> id] >>

\* the comment taken out of the loaded collection but never removed
deleteCommentChanges_NoRemove(comments, id) == << >>

\* deleteComment, lines 151-156: the comment is removed if the article's
\* collection contains it
deleteCommentChanges(comments, id) ==
  IF id \in comments THEN << [t |-> "deleteComment", id |-> id] >> ELSE << >>

\* author and article interchanged
addCommentChanges_Swapped(u, a, body) ==
  << [t |-> "insertComment",
      row |-> [article |-> u, author |-> a, body |-> body]] >>

\* addComment, lines 142-143
addCommentChanges(u, a, body) ==
  << [t |-> "insertComment",
      row |-> [article |-> a, author |-> u, body |-> body]] >>

\* lines 140 and 149: the call starts and looks the article up by slug, with
\* its comments
CommentFindArticle(s, call) ==
  /\ FreeSlot(s)
  /\ UNCHANGED <<db, calls>>
  /\ IF BySlug(db, call.slug) = {}
       THEN Return(s, [call |-> call, pre |-> Pre], "NotFound", db, 0)
       ELSE LET a == CHOOSE x \in BySlug(db, call.slug) : TRUE
            IN /\ reqs' = [reqs EXCEPT ![s] =
                    [op |-> call.op, pc |-> "commentFindUser", call |-> call,
                     pre |-> Pre, article |-> a,
                     comments |-> CommentsOf(db, a)]]
               /\ hist' = << >>

addComment(s, userId, slug, body) ==
  /\ db.commentSeq < MaxComments
  /\ CommentFindArticle(s, [op |-> "addComment", userId |-> userId,
                            slug |-> slug, body |-> body])

deleteComment(s, userId, slug, id) ==
  CommentFindArticle(s, [op |-> "deleteComment", userId |-> userId,
                         slug |-> slug, id |-> id])

\* lines 141-142 and 150-154: the user is looked up; a deleteComment whose
\* comment is not in the article's collection returns at once
CommentFindUser(s) ==
  LET r == reqs[s] IN
  /\ r.pc = "commentFindUser"
  /\ UNCHANGED <<db, calls>>
  /\ IF r.call.userId \notin Users
       THEN Return(s, r, "NotFound", db, 0)
       ELSE LET ws == IF r.op = "addComment"
                        THEN addCommentChanges(r.call.userId, r.article, r.call.body)
                        ELSE deleteCommentChanges(r.comments, r.call.id)
            IN IF ws = << >>
                 THEN Return(s, r, "ok", db, 0)
                 ELSE /\ reqs' = [reqs EXCEPT ![s] =
                           [op |-> r.op, pc |-> "commentFlush", call |-> r.call,
                            pre |-> r.pre, article |-> r.article,
                            changes |-> ws]]
                      /\ hist' = hist

\* findComments, lines 187-190: the article is looked up with its comments;
\* article! of no article has no comments to read
findComments(s, slug) ==
  /\ FreeSlot(s)
  /\ LET call == [op |-> "findComments", slug |-> slug]
     IN IF BySlug(db, slug) = {}
          THEN Answer(s, call, "error", {})
          ELSE Answer(s, call, "ok",
                      CommentsOf(db, CHOOSE x \in BySlug(db, slug) : TRUE))

\* lines 143-145 and 155-158: persistAndFlush / removeAndFlush, then the call
\* returns
CommentFlush(s) ==
  LET r == reqs[s] IN
  /\ r.pc = "commentFlush"
  /\ calls' = calls
  /\ db' = ApplyAll(db, r.changes)
  /\ Return(s, r, "ok", ApplyAll(db, r.changes), 0)

----------------------------------------------------------------------------
(* Favoriting: two stored articles, nobody has favorited any. *)

Articles0 == {1, 2}

Article0(i) ==
  [slug |-> SlugOf("t", i), title |-> "t", description |-> "d", body |-> "b",
   author |-> 1, tagList |-> << >>, favoritesCount |-> 0]

Db0 ==
  [articles |-> [i \in Articles0 |-> Article0(i)],
   favorites |-> [u \in Users |-> {}],
   tags |-> << >>, comments |-> << >>, commentSeq |-> 0]

Slugs0 == {SlugOf("t", i) : i \in Articles0} \cup {NoSlug}

InitFav(n) ==
  /\ db = Db0
  /\ reqs = [s \in 1..n |-> Idle]
  /\ hist = << >>
  /\ calls = 0

NextFav ==
  \/ \E s \in Slots, id \in UserIds, slug \in Slugs0 : favorite(s, id, slug)
  \/ \E s \in Slots, id \in UserIds, slug \in Slugs0 : unFavorite(s, id, slug)
  \/ \E s \in Slots : FindUser(s)
  \/ \E s \in Slots : Flush(s)

----------------------------------------------------------------------------
(* createArticle: no article stored, a Tag table of distinct names. *)

Chars == {"a", "b", ",", " "}

Strings(n) == UNION {[1..k -> Chars] : k \in 0..n}

\* "a, b, a" and "a,b"
ExampleStrings ==
  { <<"a", ",", " ", "b", ",", " ", "a">>, <<"a", ",", "b">> }

ArrayItems == { <<"a">>, <<" ", "a">>, <<"b", " ">>, << >> }

Arrays == UNION {[1..k -> ArrayItems] : k \in 0..2}

TagLists ==
  {[kind |-> "string", str |-> x] : x \in Strings(MaxStrLen) \cup ExampleStrings}
    \cup {[kind |-> "array", items |-> x] : x \in Arrays}
    \cup {[kind |-> "undefined"]}

\* title, description and body with one of them, or all, empty or missing
BadFields ==
  { <<"", "d", "b">>, <<Undefined, "d", "b">>, <<"t", "", "b">>,
    <<"t", Undefined, "b">>, <<"t", "d", "">>, <<"t", "d", Undefined>>,
    <<Undefined, Undefined, Undefined>> }

TagListsFew ==
  { [kind |-> "string", str |-> <<"a", ",", "b">>],
    [kind |-> "array", items |-> << <<"a">> >>],
    [kind |-> "undefined"] }

Dto(f, l) ==
  [title |-> f[1], description |-> f[2], body |-> f[3], tagList |-> l]

\* the calls tried: every tagList with a complete body and a stored author,
\* a few with a bad body or with a viewer id of no user
Creates ==
  {<<1, Dto(<<"t", "d", "b">>, l)>> : l \in TagLists}
    \cup {<<1, Dto(f, l)>> : f \in BadFields, l \in TagListsFew}
    \cup {<<NoUser, Dto(<<"t", "d", "b">>, l)>> : l \in TagListsFew}

\* a few bodies for interleaved calls
DtosConc ==
  {[title |-> "t", description |-> "d", body |-> "b",
    tagList |-> [kind |-> "string", str |-> x]] :
     x \in { <<"a">>, <<"a", ",", "b">>, <<"b">> }}

Tags0 == { << >>, << <<"a">> >>, << <<"b">>, <<"a">> >> }

InitCreate(n) ==
  /\ db \in {[articles |-> << >>, favorites |-> [u \in Users |-> {}],
              tags |-> t, comments |-> << >>, commentSeq |-> 0] : t \in Tags0}
  /\ reqs = [s \in 1..n |-> Idle]
  /\ hist = << >>
  /\ calls = 0

TxNext ==
  \/ \E s \in Slots : persistArticle(s)
  \/ \E s \in Slots : findTags(s)
  \/ \E s \in Slots : insertTag(s)
  \/ \E s \in Slots : commit(s)
  \/ \E s \in Slots : abort(s)

NextCreate ==
  \/ \E s \in Slots, c \in Creates : create(s, c[1], c[2])
  \/ TxNext

NextCreateConc ==
  \/ \E s \in Slots, dto \in DtosConc : create(s, 1, dto)
  \/ TxNext

\* createArticle calls run one at a time
SpecCreate == InitCreate(1) /\ [][NextCreate]_vars

\* two createArticle calls at a time, interleaving at their awaits
SpecCreateConc == InitCreate(2) /\ [][NextCreateConc]_vars

----------------------------------------------------------------------------
(* Comments on the two stored articles. *)

\* the comment ids a call may carry: the ids ever given out, and one more
CommentIds == 1..(MaxComments + 1)

NextComment ==
  \/ \E s \in Slots, id \in UserIds, slug \in Slugs0 :
       addComment(s, id, slug, "c")
  \/ \E s \in Slots, id \in UserIds, slug \in Slugs0, c \in CommentIds :
       deleteComment(s, id, slug, c)
  \/ \E s \in Slots : CommentFindUser(s)
  \/ \E s \in Slots : CommentFlush(s)
  \/ \E s \in Slots, slug \in Slugs0 : findComments(s, slug)

\* comment calls run one at a time
SpecComment == InitFav(1) /\ [][NextComment]_vars

\* calls run to completion one after the other
Spec == InitFav(1) /\ [][NextFav]_vars

\* two calls at a time, interleaving at their awaits
SpecFavConc == InitFav(2) /\ [][NextFav]_vars

\* A store that already holds a favorite, a comment and a Tag row when the
\* favorite / unFavorite calls start.
DbFrame ==
  [articles |-> [i \in Articles0 |->
                   [Article0(i) EXCEPT !.favoritesCount = IF i = 2 THEN 1 ELSE 0]],
   favorites |-> [u \in Users |-> IF u = 2 THEN {2} ELSE {}],
   tags |-> << "x" >>,
   comments |-> [c \in {1} |-> [article |-> 1, author |-> 1, body |-> "c"]],
   commentSeq |-> 1]

InitFrame ==
  /\ db = DbFrame
  /\ reqs = [s \in 1..1 |-> Idle]
  /\ hist = << >>
  /\ calls = 0

\* favorite / unFavorite, one call at a time, on that store
SpecFrame == InitFrame /\ [][NextFav]_vars

----------------------------------------------------------------------------
(* findAll, findFeed, findOne: lines 65-137.  The queries write nothing, so
   each is asked of a store that stays as it is; an answer carries the ids of
   the articles where the code renders them with toJSON. *)

\* an absent viewer id: userId ? ... : undefined, lines 66, 114, 132
Absent == 0

Username(u) == <<"user", u>>

\* userRepository.findOne({ username }), lines 76 and 86
UserByName(name) == {u \in Users : Username(u) = name}

\* the decimal numerals of a query string and unary plus, lines 101, 105,
\* 122, 123
Digits == <<"0", "1", "2", "3", "4", "5", "6", "7", "8", "9">>
Numeral(n) == Digits[n + 1]
Number(str) == (CHOOSE i \in DOMAIN Digits : Digits[i] = str) - 1

\* the tagList column: the tag names joined by commas
RECURSIVE Join(_)
Join(tagList) ==
  IF tagList = << >> THEN << >>
  ELSE IF Len(tagList) = 1 THEN Head(tagList)
  ELSE Head(tagList) \o << "," >> \o Join(Tail(tagList))

\* new RegExp(pattern), line 72, throws for a pattern that starts with a
\* quantifier
RegExpOk(pattern) == pattern = << >> \/ Head(pattern) # "*"

\* a pattern of literal characters matches the strings that contain it
Test(pattern, str) ==
  \E i \in 0..Len(str) :
    i + Len(pattern) <= Len(str) /\ SubSeq(str, i + 1, i + Len(pattern)) = pattern

\* the conditions the query builder has collected at line 96, for a query
\* whose usernames resolve: line 72, line 82, and line 93, where the
\* identifiers of the favorited articles are compared with the author column
Where(d, query, a) ==
  /\ "tag" \in DOMAIN query => Test(query.tag, Join(d.articles[a].tagList))
  /\ "author" \in DOMAIN query => d.articles[a].author \in UserByName(query.author)
  /\ "favorited" \in DOMAIN query =>
       \E u \in UserByName(query.favorited) : d.articles[a].author \in d.favorites[u]

\* orderBy({ createdAt: DESC }), lines 96 and 120
OrderBy(d, S) ==
  CHOOSE rows \in [1..Cardinality(S) -> S] :
    \A i \in DOMAIN rows, j \in DOMAIN rows :
      i < j => d.articles[rows[i]].createdAt > d.articles[rows[j]].createdAt

\* limit and offset, lines 100-106 and 122-123: only those the query carries
Paginate(rows, query) ==
  LET skip == IF "offset" \in DOMAIN query THEN Number(query.offset) ELSE 0
      rest == SubSeq(rows, skip + 1, Len(rows))
  IN IF "limit" \in DOMAIN query /\ Number(query.limit) < Len(rest)
       THEN SubSeq(rest, 1, Number(query.limit))
       ELSE rest

\* qb.clone().count('id', true), lines 97-98: taken before limit and offset
\* are set
CountQuery(d, query) == Cardinality({a \in ArticleIds(d) : Where(d, query, a)})

\* The stores the queries are asked of: three articles, the newest neither
\* the first nor the last created.
QArticles == {1, 2, 3}
CreatedAt == <<2, 3, 1>>
TagList0 == << << <<"a">> >>, << <<"a">>, <<"b">> >>, << >> >>
AuthorMaps == { <<1, 1, 1>>, <<1, 2, 2>> }
\* (user, favorited article)
FavoritePairs ==
  { {}, {<<1, 1>>}, {<<1, 2>>, <<2, 1>>}, {<<2, 2>>, <<2, 3>>, <<1, 3>>} }
\* (follower, followed user)
FollowPairs ==
  { {}, {<<1, 2>>}, {<<2, 1>>}, {<<1, 2>>, <<2, 1>>, <<1, 1>>} }

QueryStores ==
  { [articles |-> [i \in QArticles |->
                     [slug |-> SlugOf("t", i), author |-> au[i],
                      tagList |-> TagList0[i], createdAt |-> CreatedAt[i]]],
     favorites |-> [u \in Users |-> {a \in QArticles : <<u, a>> \in fav}],
     followers |-> [u \in Users |-> {f \in Users : <<f, u>> \in fol}]] :
    au \in AuthorMaps, fav \in FavoritePairs, fol \in FollowPairs }

\* tag patterns: literal ones, and one that is no regular expression
TagPatterns == { <<"a">>, <<"b">>, <<",">>, <<"*">> }
Usernames == {Username(u) : u \in UserIds}
Limits == {Numeral(n) : n \in 1..MaxLimit}
Offsets == {Numeral(n) : n \in 0..MaxLimit}

\* a key the query carries with one of the values, or does not carry
Opt(key, values) == { << >> } \cup {key :> v : v \in values}

Queries ==
  { t @@ a @@ f @@ l @@ o :
      t \in Opt("tag", TagPatterns), a \in Opt("author", Usernames),
      f \in Opt("favorited", Usernames),
      l \in Opt("limit", Limits), o \in Opt("offset", Offsets) }

FeedQueries ==
  { ("limit" :> l) @@ ("offset" :> o) : l \in Limits, o \in Offsets }

\* lines 79 and 89
EmptyRO == [articles |-> << >>, articlesCount |-> 0]

\* findAll, lines 65-111
findAll(s) ==
  /\ FreeSlot(s)
  /\ hist = << >>
  /\ \E userId \in {Absent, 1}, query \in Queries :
     LET call == [op |-> "findAll", userId |-> userId, query |-> query]
         rows == OrderBy(db, {a \in ArticleIds(db) : Where(db, query, a)})
     IN IF "tag" \in DOMAIN query /\ ~RegExpOk(query.tag)
          THEN Answer(s, call, "error", EmptyRO)
        ELSE IF "author" \in DOMAIN query /\ UserByName(query.author) = {}
          THEN Answer(s, call, "ok", EmptyRO)
        ELSE IF "favorited" \in DOMAIN query /\ UserByName(query.favorited) = {}
          THEN Answer(s, call, "ok", EmptyRO)
        ELSE Answer(s, call, "ok",
                    [articles |-> Paginate(rows, query),
                     articlesCount |-> CountQuery(db, query)])

\* the feed of the followed users' followers
FeedWhere_Reversed(d, userId, a) ==
  userId \in Users /\ d.articles[a].author \in d.followers[userId]

\* { author: { followers: userId } }, line 118
FeedWhere(d, userId, a) == userId \in d.followers[d.articles[a].author]

\* findFeed, lines 113-129, for a viewer id that is given and a query that
\* carries limit and offset
findFeed(s) ==
  /\ FreeSlot(s)
  /\ hist = << >>
  /\ \E userId \in UserIds, query \in FeedQueries :
     LET call == [op |-> "findFeed", userId |-> userId, query |-> query]
         S == {a \in ArticleIds(db) : FeedWhere(db, userId, a)}
     IN Answer(s, call, "ok",
               [articles |-> Paginate(OrderBy(db, S), query),
                articlesCount |-> Cardinality(S)])

\* userRepository.findOne(userId)
findOneOrFail_findOne(userId) == "ok"

\* userRepository.findOneOrFail(userId), line 133
findOneOrFail(userId) == IF userId \in Users THEN "ok" ELSE "NotFound"

\* findOne, lines 131-137
findOne(s) ==
  /\ FreeSlot(s)
  /\ hist = << >>
  /\ \E userId \in {Absent} \cup UserIds, slug \in Slugs0 :
     LET call == [op |-> "findOne", userId |-> userId, slug |-> slug]
     IN IF userId # Absent /\ findOneOrFail(userId) = "NotFound"
          THEN Answer(s, call, "NotFound", Null)
          ELSE Answer(s, call, "ok",
                      [article |-> IF BySlug(db, slug) = {} THEN Null
                                   ELSE [id |-> CHOOSE a \in BySlug(db, slug) : TRUE]])

InitQuery ==
  /\ db \in QueryStores
  /\ reqs = [s \in 1..1 |-> Idle]
  /\ hist = << >>
  /\ calls = 0

NextQuery ==
  \/ \E s \in Slots : findAll(s)
  \/ \E s \in Slots : findFeed(s)
  \/ \E s \in Slots : findOne(s)

SpecQuery == InitQuery /\ [][NextQuery]_vars

----------------------------------------------------------------------------
(* Claims on favorite and unFavorite. *)

Count(d, a) == d.articles[a].favoritesCount

\* the last two completed calls were op1 then op2, both by user u on slug
\* and both successful
LastTwo(op1, op2, u, slug) ==
  /\ Len(hist) = 2
  /\ hist[1].call = [op |-> op1, userId |-> u, slug |-> slug]
  /\ hist[2].call = [op |-> op2, userId |-> u, slug |-> slug]
  /\ hist[1].res = "ok" /\ hist[2].res = "ok"

Pairs == {<<u, a>> : u \in Users, a \in Articles0}

\* C1: when calls run one after the other from a store where nobody has
\* favorited anything, every article's favoritesCount is the number of users
\* whose favorites contain it.
C1_CountIsMembers ==
  \A a \in ArticleIds(db) : Count(db, a) = Cardinality(Favoriters(db, a))

\* an unFavorite has just removed one of two favoriters
C1_Witness ==
  /\ hist # << >>
  /\ hist[Len(hist)].call.op = "unFavorite"
  /\ \E a \in ArticleIds(db) :
       /\ Count(hist[Len(hist)].pre, a) = 2
       /\ Count(db, a) = 1
       /\ Cardinality(Favoriters(db, a)) = 1

\* C2 as stated: after favorite(U, A) then unFavorite(U, A), from any state,
\* A.favoritesCount is what it was before the first call and U's favorites do
\* not contain A.
C2_Original ==
  \A p \in Pairs :
    LastTwo("favorite", "unFavorite", p[1], SlugOf("t", p[2])) =>
      /\ Count(db, p[2]) = Count(hist[1].pre, p[2])
      /\ p[2] \notin db.favorites[p[1]]

\* C2 amended: after favorite(U, A) then unFavorite(U, A), U's favorites do
\* not contain A, and A.favoritesCount is what it was before the first call
\* if U had not favorited A then, and one less if U had.
C2_RoundTrip ==
  \A p \in Pairs :
    LastTwo("favorite", "unFavorite", p[1], SlugOf("t", p[2])) =>
      /\ p[2] \notin db.favorites[p[1]]
      /\ Count(db, p[2]) =
           IF p[2] \in hist[1].pre.favorites[p[1]]
             THEN Count(hist[1].pre, p[2]) - 1
             ELSE Count(hist[1].pre, p[2])

\* the round trip from a state where U had not favorited A and another user had
C2_Witness ==
  \E p \in Pairs :
    /\ LastTwo("favorite", "unFavorite", p[1], SlugOf("t", p[2]))
    /\ p[2] \notin hist[1].pre.favorites[p[1]]
    /\ Count(hist[1].pre, p[2]) = 1
    /\ Count(hist[2].pre, p[2]) = 2

\* C3: two favorite(U, A) calls in a row, U not having favorited A, raise
\* A.favoritesCount by exactly 1, and the second call leaves the count and
\* U's favorites as the first left them.
C3_FavoriteTwice ==
  \A p \in Pairs :
    ( /\ LastTwo("favorite", "favorite", p[1], SlugOf("t", p[2]))
      /\ p[2] \notin hist[1].pre.favorites[p[1]] ) =>
      /\ Count(db, p[2]) = Count(hist[1].pre, p[2]) + 1
      /\ Count(db, p[2]) = Count(hist[2].pre, p[2])
      /\ db.favorites[p[1]] = hist[2].pre.favorites[p[1]]
      /\ p[2] \in db.favorites[p[1]]

C3_Witness ==
  \E p \in Pairs :
    /\ LastTwo("favorite", "favorite", p[1], SlugOf("t", p[2]))
    /\ p[2] \notin hist[1].pre.favorites[p[1]]
    /\ p[2] \in hist[2].pre.favorites[p[1]]

\* C4: favoritesCount is never negative, whatever the interleaving of
\* favorite and unFavorite calls.
C4_NonNegative == \A a \in ArticleIds(db) : Count(db, a) >= 0

\* C5: every step that changes the store commits all the writes of one call
\* together: the membership change and the counter change of a favorite or
\* unFavorite become visible in the same step.
C5_OneCommit ==
  [][ db' # db =>
        \E s \in Slots :
          /\ reqs[s].pc = "flush"
          /\ reqs[s].changes # << >>
          /\ db' = ApplyAll(db, reqs[s].changes) ]_vars

\* a call has committed a membership change while another call on the same
\* article is between its reads
C5_Witness ==
  \E s \in Slots :
    /\ reqs[s].pc = "findUser"
    /\ \E u \in Users : reqs[s].article \in db.favorites[u]
    /\ Count(db, reqs[s].article) # reqs[s].favoritesCount

----------------------------------------------------------------------------
(* Claims on createArticle. *)

Last == hist[Len(hist)]

Returned(op, res) == hist # << >> /\ Last.call.op = op /\ Last.res = res

\* t is str without the spaces at its two ends
IsTrimOf(t, str) ==
  /\ t = << >> \/ (t[1] # " " /\ t[Len(t)] # " ")
  /\ \E i \in 0..Len(str) :
       /\ i + Len(t) <= Len(str)
       /\ SubSeq(str, i + 1, i + Len(t)) = t
       /\ \A k \in 1..i : str[k] = " "
       /\ \A k \in (i + Len(t) + 1)..Len(str) : str[k] = " "

Substrings(str) == {SubSeq(str, i, j) : i \in 1..(Len(str) + 1), j \in 0..Len(str)}

\* the pieces of str between its commas
Pieces(str) ==
  LET cuts == {0, Len(str) + 1} \cup {i \in DOMAIN str : str[i] = ","}
  IN {SubSeq(str, c[1] + 1, c[2] - 1) :
        c \in {c \in cuts \X cuts :
                 c[1] < c[2] /\ \A k \in cuts : ~(c[1] < k /\ k < c[2])}}

\* the distinct trimmed tag names a tagList names
TagNames(tagList) ==
  LET raw == IF tagList.kind = "string" THEN Pieces(tagList.str)
             ELSE IF tagList.kind = "array" THEN Range(tagList.items)
             ELSE {}
  IN {t \in UNION {Substrings(x) : x \in raw} : \E x \in raw : IsTrimOf(t, x)}

Rows(d, name) == {i \in DOMAIN d.tags : d.tags[i] = name}

\* C6: a createArticle call that succeeds stores an article whose tagList
\* holds each distinct trimmed tag name of the request exactly once, and
\* afterwards the Tag table has exactly one row for each of those names: the
\* rows it had are untouched and one row is added for each missing name.
C6_TagsOnce ==
  Returned("create", "ok") =>
    LET names == TagNames(Last.call.dto.tagList)
        pre == Last.pre
        new == ArticleIds(db) \ ArticleIds(pre)
    IN /\ Cardinality(new) = 1
       /\ \A a \in new :
            /\ Range(db.articles[a].tagList) = names
            /\ Len(db.articles[a].tagList) = Cardinality(names)
       /\ \A n \in names : Cardinality(Rows(db, n)) = 1
       /\ SubSeq(db.tags, 1, Len(pre.tags)) = pre.tags
       /\ {db.tags[i] : i \in (Len(pre.tags) + 1)..Len(db.tags)}
            = names \ Range(pre.tags)
       /\ Len(db.tags) = Len(pre.tags) + Cardinality(names \ Range(pre.tags))

\* "a, b, a" created when a row for "a" existed and none for "b"
C6_Witness ==
  /\ Returned("create", "ok")
  /\ Last.call.dto.tagList =
       [kind |-> "string", str |-> <<"a", ",", " ", "b", ",", " ", "a">>]
  /\ Last.pre.tags = << <<"a">> >>
  /\ db.tags = << <<"a">>, <<"b">> >>

\* C7: no two rows of the Tag table have the same name, whatever the
\* interleaving of createArticle calls.
C7_UniqueTags ==
  \A i, j \in DOMAIN db.tags : db.tags[i] = db.tags[j] => i = j

\* C8: when the transaction of a createArticle call aborts, the store is what
\* it was before the call: no new article, no new Tag row, nothing modified.
C8_AllOrNothing == Returned("create", "error") => db = Last.pre

\* an abort after the article and two tags were written
C8_Witness ==
  /\ Returned("create", "error")
  /\ Last.undone = 3
  /\ Last.call.userId \in Users

\* C9: createArticle with an empty or missing title, description or body
\* fails with a validation error and leaves the articles and the Tag table
\* as they were.
C9_ValidationPersistsNothing ==
  ( /\ hist # << >>
    /\ Last.call.op = "create"
    /\ \E v \in {Last.call.dto.title, Last.call.dto.description,
                 Last.call.dto.body} : v \in {"", Undefined} ) =>
    /\ Last.res = "BadRequest"
    /\ db.articles = Last.pre.articles
    /\ db.tags = Last.pre.tags

\* a body without description, with tags, is refused
C9_Witness ==
  /\ Returned("create", "BadRequest")
  /\ Last.call.dto.title = "t"
  /\ Last.call.dto.description = Undefined
  /\ Last.call.dto.tagList.kind = "string"

----------------------------------------------------------------------------
(* Claims on comments. *)

\* C10: deleteComment for an existing article and viewer and a comment id
\* that is not in the article's comment collection (a comment of another
\* article, or the id of no comment) raises no error and leaves every stored
\* comment, and so the article's collection, as it was.
C10_DeleteNonMember ==
  \A a \in Articles0, u \in Users, c \in CommentIds :
    ( /\ hist # << >>
      /\ Last.call = [op |-> "deleteComment", userId |-> u,
                      slug |-> SlugOf("t", a), id |-> c]
      /\ c \notin CommentsOf(Last.pre, a) ) =>
      /\ Last.res = "ok"
      /\ db.comments = Last.pre.comments
      /\ CommentsOf(db, a) = CommentsOf(Last.pre, a)

\* a deleteComment addressed a comment of the other article while the
\* addressed article had a comment of its own
C10_Witness ==
  \E a \in Articles0, c \in CommentIds :
    /\ Returned("deleteComment", "ok")
    /\ Last.call.slug = SlugOf("t", a)
    /\ Last.call.id = c
    /\ c \in DOMAIN db.comments
    /\ db.comments[c].article # a
    /\ CommentsOf(db, a) # {}

\* C11: deleteComment for a comment in the addressed article's collection
\* removes it from the collection and from the store, leaving the other
\* comments alone, so that findComments does not return it afterwards (it
\* returns the stored comments of the article and no others); a deleteComment
\* for a comment already deleted raises no error and changes nothing.
C11_DeleteMember ==
  /\ \A a \in Articles0, u \in Users, c \in CommentIds :
       ( /\ hist # << >>
         /\ Last.call = [op |-> "deleteComment", userId |-> u,
                         slug |-> SlugOf("t", a), id |-> c] ) =>
         /\ c \in CommentsOf(Last.pre, a) =>
              /\ Last.res = "ok"
              /\ DOMAIN db.comments = DOMAIN Last.pre.comments \ {c}
              /\ \A x \in DOMAIN db.comments : db.comments[x] = Last.pre.comments[x]
         /\ (c <= Last.pre.commentSeq /\ c \notin DOMAIN Last.pre.comments) =>
              /\ Last.res = "ok"
              /\ db = Last.pre
  /\ \A a \in Articles0 :
       ( /\ hist # << >>
         /\ Last.call = [op |-> "findComments", slug |-> SlugOf("t", a)] ) =>
         /\ Last.res = "ok"
         /\ Last.out = {c \in CommentIds :
                          c \in DOMAIN db.comments /\ db.comments[c].article = a}

\* a comment of the addressed article was deleted, another comment of the
\* article staying
C11_Witness ==
  \E a \in Articles0 :
    /\ Returned("deleteComment", "ok")
    /\ Last.call.slug = SlugOf("t", a)
    /\ Last.call.id \in CommentsOf(Last.pre, a)
    /\ Last.call.id \notin DOMAIN db.comments
    /\ CommentsOf(db, a) # {}

\* C12: addComment fails with NotFound, and stores no comment, when the slug
\* matches no article or the viewer id resolves to no user; otherwise it
\* stores exactly one new comment, owned by the addressed article and
\* authored by the viewer.
C12_AddComment ==
  \A slug \in Slugs0, u \in UserIds :
    ( /\ hist # << >>
      /\ Last.call = [op |-> "addComment", userId |-> u, slug |-> slug,
                      body |-> "c"] ) =>
      IF slug = NoSlug \/ u = NoUser
        THEN /\ Last.res = "NotFound"
             /\ db.comments = Last.pre.comments
        ELSE /\ Last.res = "ok"
             /\ \A x \in DOMAIN Last.pre.comments :
                  x \in DOMAIN db.comments /\ db.comments[x] = Last.pre.comments[x]
             /\ \E c \in CommentIds :
                  /\ DOMAIN db.comments = DOMAIN Last.pre.comments \cup {c}
                  /\ c \notin DOMAIN Last.pre.comments
                  /\ db.comments[c].author = u
                  /\ SlugOf("t", db.comments[c].article) = slug

\* user 1 commented on article 2, which already had a comment
C12_Witness ==
  /\ Returned("addComment", "ok")
  /\ Last.call.userId = 1
  /\ Last.call.slug = SlugOf("t", 2)
  /\ CommentsOf(Last.pre, 2) # {}
  /\ Cardinality(CommentsOf(db, 2)) = 2

\* the favorite call in slot s, by user u on article a, has passed its
\* membership test and is about to flush the pivot row and the count n
Poised(s, u, a, n) ==
  /\ reqs[s].pc = "flush"
  /\ reqs[s].op = "favorite"
  /\ reqs[s].changes = << [t |-> "pivotInsert", user |-> u, article |-> a],
                          [t |-> "setCount", article |-> a, value |-> n] >>

\* C19: two favorite calls on the same article A by two different users,
\* neither of whom has favorited A, race on favoritesCount: once both have read
\* A before either flushes, the first flush succeeds, adds its user and raises
\* the count by one, and the second flush succeeds and adds its user while
\* writing the same count again, so both users have A and the count has risen
\* by only 1.
C19_LostUpdate ==
  [][ /\ \A s \in Slots, t \in Slots, u \in Users, v \in Users, a \in Articles0 :
           ( /\ s # t /\ u # v
             /\ Favoriters(db, a) \cap {u, v} = {}
             /\ Poised(s, u, a, Count(db, a) + 1)
             /\ Poised(t, v, a, Count(db, a) + 1)
             /\ reqs'[s] # reqs[s] ) =>
             /\ reqs'[s] = Idle
             /\ reqs'[t] = reqs[t]
             /\ Favoriters(db', a) = Favoriters(db, a) \cup {u}
             /\ Count(db', a) = Count(db, a) + 1
      /\ \A t \in Slots, v \in Users, a \in Articles0 :
           ( /\ v \notin Favoriters(db, a)
             /\ Poised(t, v, a, Count(db, a))
             /\ reqs'[t] # reqs[t] ) =>
             /\ reqs'[t] = Idle
             /\ Favoriters(db', a) = Favoriters(db, a) \cup {v}
             /\ Count(db', a) = Count(db, a) ]_vars

\* two calls were made, both have returned, both users have favorited the
\* article and its count is 1
C19_Witness ==
  \E a \in Articles0 :
    /\ calls = 2
    /\ \A s \in Slots : reqs[s] = Idle
    /\ Favoriters(db, a) = {1, 2}
    /\ Count(db, a) = 1

\* C20: a favorite or unFavorite call by user U on article A changes nothing
\* but U's membership of A and A's favoritesCount: every other user's
\* favorites, U's membership of every other article, every other article's
\* row, A's other columns, the comments and the Tag rows are after the call
\* what they were before it; a call that fails with NotFound changes nothing.
C20_Frame ==
  hist # << >> =>
    LET e == Last IN
    e.call.op \in {"favorite", "unFavorite"} =>
      /\ e.post = db
      /\ e.res = "NotFound" => e.post = e.pre
      /\ \A a \in Articles0, u \in Users :
           (SlugOf("t", a) # e.call.slug \/ u # e.call.userId) =>
             (a \in e.post.favorites[u] <=> a \in e.pre.favorites[u])
      /\ \A a \in Articles0 :
           IF SlugOf("t", a) # e.call.slug
             THEN e.post.articles[a] = e.pre.articles[a]
             ELSE e.post.articles[a] =
                    [e.pre.articles[a] EXCEPT !.favoritesCount = Count(e.post, a)]
      /\ DOMAIN e.post.articles = DOMAIN e.pre.articles
      /\ e.post.comments = e.pre.comments
      /\ e.post.commentSeq = e.pre.commentSeq
      /\ e.post.tags = e.pre.tags

\* user 1 favorited article 1 while user 2 held article 2 and the store held
\* a comment and a Tag row
C20_Witness ==
  /\ Returned("favorite", "ok")
  /\ Last.call.userId = 1
  /\ Last.call.slug = SlugOf("t", 1)
  /\ Last.pre.favorites[2] = {2}
  /\ Last.pre.favorites[1] = {}
  /\ db.favorites[1] = {1}
  /\ Count(db, 1) = 1
  /\ Count(Last.pre, 2) = 1
  /\ db.comments # << >>
  /\ db.tags # << >>

\* the articles a filter set asks for: those whose tagList matches the tag
\* pattern, written by the named author and in the named user's favorites
Matching(d, query) ==
  {a \in DOMAIN d.articles :
     /\ "tag" \in DOMAIN query => Test(query.tag, Join(d.articles[a].tagList))
     /\ "author" \in DOMAIN query =>
          \E u \in Users : Username(u) = query.author /\ d.articles[a].author = u
     /\ "favorited" \in DOMAIN query =>
          \E u \in Users : Username(u) = query.favorited /\ a \in d.favorites[u]}

Newer(d, S, a) == {b \in S : d.articles[b].createdAt > d.articles[a].createdAt}

\* page is the part of S, newest first, that the query's limit and offset
\* select
IsPage(page, d, S, query) ==
  LET skip == IF "offset" \in DOMAIN query THEN Number(query.offset) ELSE 0
      left == IF Cardinality(S) > skip THEN Cardinality(S) - skip ELSE 0
  IN /\ \A i \in DOMAIN page :
          page[i] \in S /\ Cardinality(Newer(d, S, page[i])) = skip + i - 1
     /\ Len(page) = IF "limit" \in DOMAIN query /\ Number(query.limit) < left
                      THEN Number(query.limit) ELSE left

\* C13: the articlesCount of findAll is the number of articles matching the
\* filters, whatever limit and offset are; the page holds at most limit
\* articles, skips the first offset ones in newest-first order, and is the
\* whole matching list when neither limit nor offset is given.
C13_CountBeforePage ==
  (hist # << >> /\ Last.call.op = "findAll" /\ Last.res = "ok") =>
    LET q == Last.call.query
        M == Matching(Last.pre, q)
    IN /\ Last.out.articlesCount = Cardinality(M)
       /\ IsPage(Last.out.articles, Last.pre, M, q)

\* C14: findAll with favorited naming an existing user returns exactly the
\* articles in that user's favorites that also pass the tag and author
\* filters, and articlesCount is their number.
C14_FavoritedFilter ==
  ( /\ hist # << >> /\ Last.call.op = "findAll" /\ Last.res = "ok"
    /\ "favorited" \in DOMAIN Last.call.query
    /\ \E u \in Users : Username(u) = Last.call.query.favorited ) =>
    LET q == Last.call.query
        u == CHOOSE x \in Users : Username(x) = q.favorited
        M == Matching(Last.pre, q)
    IN /\ M \subseteq Last.pre.favorites[u]
       /\ Last.out.articlesCount = Cardinality(M)
       /\ Range(Last.out.articles) \subseteq M
       /\ DOMAIN q \cap {"limit", "offset"} = {} => Range(Last.out.articles) = M

\* C15: findAll whose author or favorited filter names no user returns no
\* articles and articlesCount 0 and raises no error, whatever the other
\* filters are.
C15_UnknownUser ==
  ( /\ hist # << >> /\ Last.call.op = "findAll"
    /\ \E k \in DOMAIN Last.call.query \cap {"author", "favorited"} :
         \A u \in Users : Username(u) # Last.call.query[k] ) =>
    /\ Last.res = "ok"
    /\ Last.out = [articles |-> << >>, articlesCount |-> 0]

\* C16: findFeed returns only articles whose author's followers contain the
\* viewer, newest first and restricted to the page of limit and offset; its
\* articlesCount is the number of all stored articles whose author the viewer
\* follows.
C16_Feed ==
  (hist # << >> /\ Last.call.op = "findFeed") =>
    LET F == {a \in DOMAIN Last.pre.articles :
                \E w \in Users : /\ Last.pre.articles[a].author = w
                                 /\ Last.call.userId \in Last.pre.followers[w]}
    IN /\ Last.res = "ok"
       /\ Last.out.articlesCount = Cardinality(F)
       /\ IsPage(Last.out.articles, Last.pre, F, Last.call.query)

\* the viewer follows the author of two articles, one other article being
\* stored, and asks for the second page of one article
C16_Witness ==
  /\ Returned("findFeed", "ok")
  /\ Last.call.query = [limit |-> "1", offset |-> "1"]
  /\ Last.out.articlesCount = 2
  /\ Len(Last.out.articles) = 1
  /\ Cardinality(DOMAIN db.articles) = 3

\* C18 as stated: findOne returns a null article and raises no error when no
\* article matches, for every viewer id.
C18_Original ==
  ( /\ hist # << >> /\ Last.call.op = "findOne"
    /\ BySlug(Last.pre, Last.call.slug) = {} ) =>
    /\ Last.res = "ok"
    /\ Last.out = [article |-> Null]

\* C18: findOne for a selector that matches no stored article returns a null
\* article and raises no error when the viewer id is absent or resolves to a
\* user, and fails with NotFound when the viewer id resolves to no user.
C18_NullOrNotFound ==
  ( /\ hist # << >> /\ Last.call.op = "findOne"
    /\ BySlug(Last.pre, Last.call.slug) = {} ) =>
    IF Last.call.userId = Absent \/ Last.call.userId \in Users
      THEN Last.res = "ok" /\ Last.out = [article |-> Null]
      ELSE Last.res = "NotFound"

\* findOne was called for no stored slug with a viewer id of no user
C18_Witness ==
  /\ Returned("findOne", "NotFound")
  /\ Last.call.userId = NoUser
  /\ Last.call.slug = NoSlug

====
